---- MODULE Spec2Model ----
(***************************************************************************)
(* Getzy request orchestration engine (Getzy._request, Getzy._runMiddleware *)
(* and the transport event handlers).  One top-level call is a tree of      *)
(* pipeline invocations ("frames"): the first one is created by get/post/.. *)
(* and every retry or redirect continuation adds a frame whose promise is   *)
(* awaited by the frame that spawned it.                                    *)
(***************************************************************************)
EXTENDS Integers, Sequences, FiniteSets, TLC

\* ---------------------------------------------------------------- bounds
MaxRetries == 1
MaxRedirects == 2
MaxHandlers == 2
MaxAttempt == 3
MaxValue == 2

\* ---------------------------------------------------------------- values
\* JavaScript null and undefined, and a string
NULL == [t |-> "null"]
UNDEF == [t |-> "undefined"]
STR == [t |-> "string"]

\* typeof v
TypeOf(v) ==
  IF v.t = "undefined" THEN "undefined"
  ELSE IF v.t = "string" THEN "string"
  ELSE IF v.t = "function" THEN "function"
  ELSE "object"

\* ToBoolean(v) for the values of the model
Truthy(v) == v.t \notin {"null", "undefined"}

\* the status codes a server answers with, and whether a Location header comes with it
Statuses == {200, 301, 404, 503}
Completions ==
  {[statusCode |-> s, location |-> l] : s \in Statuses, l \in BOOLEAN} \
  {[statusCode |-> s, location |-> TRUE] : s \in {200, 404, 503}}

\* the HTTP methods of get / head / post, and the values of options.body: none, an
\* object that is serialised as JSON, an object with a pipe function (a stream)
Methods == {"GET", "HEAD", "POST"}
JSONBody == [t |-> "object", pipe |-> FALSE]
StreamBody == [t |-> "object", pipe |-> TRUE]
Bodies == {NULL, JSONBody, StreamBody}

\* the behaviours of the registered middleware functions; HandlerKinds are those a
\* client of Spec draws its handlers from, the last five belong to the specifications
\* about the context, the contract and registration
\*   pass          returns { ctx }
\*   fwd           returns { ctx, result } with the result it was given
\*   set           returns { ctx, result: R } with an object R of its own
\*   nullres       returns { ctx, result: null }
\*   throw         throws
\*   throwOnResult throws when it is given a result, returns { ctx } otherwise
\*   deref         reads result.statusCode, then returns { ctx, result }
\*   bad           returns undefined
\*   setMeta       stores a key in ctx.meta, returns { ctx }
\*   setOption     stores a key in ctx.options, returns { ctx }
\*   nullctx       returns { ctx: null }
\*   strres        returns { ctx, result: 'text' }
\*   late          a handler registered while a call is in flight; returns { ctx }
HandlerKinds == {"pass", "fwd", "set", "nullres", "throw", "throwOnResult", "deref", "bad"}

RECURSIVE SeqsUpTo(_, _)
SeqsUpTo(S, n) ==
  IF n = 0 THEN {<<>>}
  ELSE LET shorter == SeqsUpTo(S, n - 1)
       IN shorter \cup {Append(s, x) : s \in {q \in shorter : Len(q) = n - 1}, x \in S}

VARIABLES
  middlewares,            \* this.middlewares: [before |-> handlers, after |-> handlers]
  middlewareErrorHandler, \* this.middlewareErrorHandler: "null", "fn", or "throws" for
                          \* a function that throws
  method,                 \* the HTTP method of the call
  body,                   \* options.body
  retries,                \* options.retries
  redirects,              \* options.redirects
  frames,                 \* the pipeline invocations of the call
  dispatched,             \* number of transport.request(...) calls made
  delays,                 \* number of backoff delays waited
  history,                \* the transport outcomes, in order
  log,                    \* the middleware invocations, in order
  observed,               \* the invocations of the middleware error handler, in order
  backoff,                \* a call of _jitteredBackoff: its arguments, the value of
                          \* Math.random() in thousandths, and the delay it returns
  built,                  \* the URL of a call: the url and options.params it is made
                          \* with, the Location a redirect answers with, and fullURL
  registration            \* the last call of use / useIntegration / onMiddlewareError:
                          \* whether it threw, and the registries it found

vars == <<middlewares, middlewareErrorHandler, method, body, retries, redirects, frames,
          dispatched, delays, history, log, observed, backoff, built, registration>>

\* ctx = { method, url: fullURL, options, meta: {} } of a top-level call; options and
\* meta are the sets of keys that handlers have stored in them
CTX == [t |-> "ctx", method |-> method, options |-> {}, meta |-> {}]

\* ---------------------------------------------------------------- responses and errors
\* Result with the attempt count left out of the response
Result_NoRetryCount(statusCode, attempt, redirectCount) ==
  [t |-> "response", statusCode |-> statusCode,
   ok |-> (statusCode >= 200 /\ statusCode < 300),
   retries |-> 0, redirects |-> redirectCount,
   src |-> "transport", idx |-> 0]

\* the result object built in the 'end' handler
Result(statusCode, attempt, redirectCount) ==
  [t |-> "response", statusCode |-> statusCode,
   ok |-> (statusCode >= 200 /\ statusCode < 300),
   retries |-> attempt, redirects |-> redirectCount,
   src |-> "transport", idx |-> 0]

\* the object a "set" handler supplies (a cached or mocked response)
Supplied(phase, i) ==
  [t |-> "response", statusCode |-> 200, ok |-> TRUE, retries |-> 0, redirects |-> 0,
   src |-> phase, idx |-> i]

\* err.response = result; err.request = { method, url, options, attempt }
HTTPError(result, attempt) ==
  [t |-> "error", kind |-> "http", response |-> result, request |-> TRUE,
   attempt |-> attempt, phase |-> "", idx |-> 0]

NetworkError(attempt) ==
  [t |-> "error", kind |-> "network", response |-> UNDEF, request |-> TRUE,
   attempt |-> attempt, phase |-> "", idx |-> 0]

TimeoutError(attempt) ==
  [t |-> "error", kind |-> "timeout", response |-> UNDEF, request |-> TRUE,
   attempt |-> attempt, phase |-> "", idx |-> 0]

\* an error raised inside _runMiddleware or by the checks of _request that follow it
MiddlewareError(kind, phase, i) ==
  [t |-> "error", kind |-> kind, response |-> UNDEF, request |-> FALSE,
   attempt |-> 0, phase |-> phase, idx |-> i]

\* new Error('Streaming is not supported for body handling'): no request snapshot
UnsupportedBodyError ==
  [t |-> "error", kind |-> "body", response |-> UNDEF, request |-> FALSE,
   attempt |-> 0, phase |-> "", idx |-> 0]

\* what the middleware error handler throws when it is one that throws
ObserverError ==
  [t |-> "error", kind |-> "observer", response |-> UNDEF, request |-> FALSE,
   attempt |-> 0, phase |-> "", idx |-> 0]

\* the TypeError of redirected.redirects = ... when the awaited result is null
TypeError ==
  [t |-> "error", kind |-> "type", response |-> UNDEF, request |-> FALSE,
   attempt |-> 0, phase |-> "", idx |-> 0]

\* ---------------------------------------------------------------- backoff
\* the delays option values and the values of Math.random() (in thousandths, below 1)
BaseDelays == {0, 100, 500, 1000}
MaxDelays == {0, 500, 2000}
Randoms == {0, 250, 500, 750, 999}

\* no call of _jitteredBackoff under consideration: the defaults of the constructor
NoBackoff ==
  [baseDelay |-> 500, attempt |-> 0, maxDelay |-> 2000, random |-> 0,
   computed |-> FALSE, delay |-> 0]

RECURSIVE Pow2(_)
Pow2(n) == IF n = 0 THEN 1 ELSE 2 * Pow2(n - 1)

Min(a, b) == IF a <= b THEN a ELSE b

\* a number of milliseconds in the unit of the delays computed here, 1/5000 ms: with
\* jitter = delay * 0.2 and Math.random() in thousandths every value is a whole number
Ticks(ms) == ms * 5000

\* _jitteredBackoff with twice the jitter: jitter = delay * 0.4
JitteredBackoff_DoubleJitter(baseDelay, attempt, maxDelay, random) ==
  LET delay == Min(baseDelay * Pow2(attempt), maxDelay)
  IN Ticks(delay) + (2 * random - 1000) * delay * 2

\* _jitteredBackoff(baseDelay, attempt, maxDelay), in ticks:
\*   delay = min(baseDelay * 2^attempt, maxDelay); jitter = delay * 0.2
\*   delay + (Math.random() * jitter * 2 - jitter)
JitteredBackoff(baseDelay, attempt, maxDelay, random) ==
  LET delay == Min(baseDelay * Pow2(attempt), maxDelay)
  IN Ticks(delay) + (2 * random - 1000) * delay

\* ---------------------------------------------------------------- registration
\* the values given to use, useIntegration and onMiddlewareError: a function of one
\* of the handler kinds, a string, or nothing
Fn(kind) == [t |-> "function", kind |-> kind]
Arguments == {Fn("pass"), Fn("fwd"), STR, UNDEF}
Phases == {"before", "after", "during"}
NoRegistration == [op |-> "none", threw |-> FALSE,
                   prior |-> [middlewares |-> [before |-> <<>>, after |-> <<>>],
                              middlewareErrorHandler |-> "null"]]

\* use(fn, phase) on the registries mws: throws, or pushes fn onto mws[phase]
Registered(mws, fn, phase) ==
  IF TypeOf(fn) # "function" \/ phase \notin {"before", "after"}
  THEN [threw |-> TRUE, middlewares |-> mws]
  ELSE [threw |-> FALSE, middlewares |-> [mws EXCEPT ![phase] = Append(@, fn.kind)]]

\* useIntegration(integration): use(integration.before, 'before') if there is a before,
\* then use(integration.after, 'after') if there is an after
Integrated(mws, integration) ==
  LET first == IF Truthy(integration.before)
               THEN Registered(mws, integration.before, "before")
               ELSE [threw |-> FALSE, middlewares |-> mws]
  IN IF first.threw THEN first
     ELSE IF Truthy(integration.after)
     THEN Registered(first.middlewares, integration.after, "after")
     ELSE first

\* ---------------------------------------------------------------- URLs
\* a query string is the set of its key=value pairs; an object given as
\* options.params is the set of its entries, one per key
Keys == {"k", "m"}
Pairs == {<<k, v>> : k \in Keys, v \in 1..MaxValue}
Queries == {q \in SUBSET Pairs : \A a, b \in q : a[1] = b[1] => a = b}
URLs == [t : {"url"}, path : {"/"}, query : Queries]
Params == {UNDEF} \cup [t : {"object"}, entries : Queries]
NoURL == [url |-> [t |-> "url", path |-> "/", query |-> {}], params |-> UNDEF,
          location |-> [t |-> "url", path |-> "/", query |-> {}], pc |-> "idle",
          fullURL |-> [t |-> "url", path |-> "/", query |-> {}]]

\* new URLSearchParams(params).toString(): the entries of the object
URLSearchParams(params) == params.entries

\* _buildURLWithParams(url, params)
BuildURLWithParams(url, params) ==
  IF ~Truthy(params) THEN url
  ELSE [url EXCEPT !.query = URLSearchParams(params)]

\* new URL(res.headers.location, ctx.url).toString() for a Location that names a path
\* and a query of its own
NextUrl(location, base) == [base EXCEPT !.path = location.path, !.query = location.query]

\* ---------------------------------------------------------------- middleware
\* what the i-th handler of a phase does with { ctx, result }
Returned(kind, phase, i, ctx, result) ==
  LET ctxOnly == [threw |-> FALSE, object |-> TRUE, ctx |-> ctx, result |-> UNDEF]
      with(r) == [threw |-> FALSE, object |-> TRUE, ctx |-> ctx, result |-> r]
      throws  == [threw |-> TRUE, object |-> FALSE, ctx |-> UNDEF, result |-> UNDEF]
      key == <<phase, i>>
  IN CASE kind \in {"pass", "late"} -> ctxOnly
       [] kind = "setMeta" ->
            IF Truthy(ctx) THEN [ctxOnly EXCEPT !.ctx.meta = @ \cup {key}] ELSE throws
       [] kind = "setOption" ->
            IF Truthy(ctx) THEN [ctxOnly EXCEPT !.ctx.options = @ \cup {key}] ELSE throws
       [] kind = "nullctx" -> [ctxOnly EXCEPT !.ctx = NULL]
       [] kind = "strres" -> with(STR)
       [] kind = "fwd" -> with(result)
       [] kind = "set" -> with(Supplied(phase, i))
       [] kind = "nullres" -> with(NULL)
       [] kind = "throw" -> throws
       [] kind = "throwOnResult" -> IF Truthy(result) THEN throws ELSE ctxOnly
       [] kind = "deref" -> IF Truthy(result) THEN with(result) ELSE throws
       [] kind = "bad" -> [threw |-> FALSE, object |-> FALSE, ctx |-> UNDEF, result |-> UNDEF]

\* the catch block of _runMiddleware with the handler call left out
Caught_Unreported(err, currentCtx, phase, trace) ==
  [threw |-> TRUE, err |-> err, ctx |-> UNDEF, result |-> UNDEF, trace |-> trace,
   reports |-> <<>>]

\* the catch block of _runMiddleware: await the handler if there is one, with
\* (err, currentCtx, phase), then rethrow; a handler that throws replaces the error
Caught(err, currentCtx, phase, trace) ==
  [threw |-> TRUE,
   err |-> IF middlewareErrorHandler = "throws" THEN ObserverError ELSE err,
   ctx |-> UNDEF, result |-> UNDEF, trace |-> trace,
   reports |-> IF middlewareErrorHandler # "null"
               THEN <<[err |-> err, ctx |-> currentCtx, phase |-> phase]>> ELSE <<>>]

\* the record of one invocation mw({ ctx, result }): what it was given, the ctx and
\* result of the object it returned, and the error it ended with
Invocation(phase, i, ctx, result, returned, err) ==
  [phase |-> phase, idx |-> i, ctx |-> ctx, result |-> result,
   out |-> [ctx |-> returned.ctx, result |-> returned.result], error |-> err]

\* the loop of _runMiddleware giving every handler the ctx the phase started with
RECURSIVE RunFrom_SameCtx(_, _, _, _, _, _)
RunFrom_SameCtx(mws, phase, i, currentCtx, result, trace) ==
  IF i > Len(mws)
  THEN [threw |-> FALSE, err |-> UNDEF, ctx |-> currentCtx, result |-> result,
        trace |-> trace, reports |-> <<>>]
  ELSE LET returned == Returned(mws[i], phase, i, currentCtx, result)
           called == Append(trace, Invocation(phase, i, currentCtx, result, returned, UNDEF))
           failed(kind) == Append(trace, Invocation(phase, i, currentCtx, result, returned,
                                                    MiddlewareError(kind, phase, i)))
       IN IF returned.threw
          THEN Caught(MiddlewareError("handler", phase, i), currentCtx, phase, failed("handler"))
          ELSE IF ~returned.object \/ TypeOf(returned.ctx) # "object"
          THEN Caught(MiddlewareError("contract", phase, i), currentCtx, phase, failed("contract"))
          ELSE IF returned.result # UNDEF
          THEN IF TypeOf(returned.result) # "object"
               THEN Caught(MiddlewareError("contract", phase, i), currentCtx, phase, failed("contract"))
               ELSE [threw |-> FALSE, err |-> UNDEF, ctx |-> returned.ctx,
                     result |-> returned.result, trace |-> called, reports |-> <<>>]
          ELSE RunFrom_SameCtx(mws, phase, i + 1, currentCtx, result, called)

\* the loop of _runMiddleware from the i-th handler on
RECURSIVE RunFrom(_, _, _, _, _, _)
RunFrom(mws, phase, i, currentCtx, result, trace) ==
  IF i > Len(mws)
  THEN [threw |-> FALSE, err |-> UNDEF, ctx |-> currentCtx, result |-> result,
        trace |-> trace, reports |-> <<>>]
  ELSE LET returned == Returned(mws[i], phase, i, currentCtx, result)
           called == Append(trace, Invocation(phase, i, currentCtx, result, returned, UNDEF))
           failed(kind) == Append(trace, Invocation(phase, i, currentCtx, result, returned,
                                                    MiddlewareError(kind, phase, i)))
       IN IF returned.threw
          THEN Caught(MiddlewareError("handler", phase, i), currentCtx, phase, failed("handler"))
          ELSE IF ~returned.object \/ TypeOf(returned.ctx) # "object"
          THEN Caught(MiddlewareError("contract", phase, i), currentCtx, phase, failed("contract"))
          ELSE IF returned.result # UNDEF
          THEN IF TypeOf(returned.result) # "object"
               THEN Caught(MiddlewareError("contract", phase, i), currentCtx, phase, failed("contract"))
               ELSE [threw |-> FALSE, err |-> UNDEF, ctx |-> returned.ctx,
                     result |-> returned.result, trace |-> called, reports |-> <<>>]
          ELSE RunFrom(mws, phase, i + 1, returned.ctx, result, called)

\* _runMiddleware(phase, ctx, result = null)
RunMiddleware(phase, ctx, result) ==
  RunFrom(middlewares[phase], phase, 1, ctx, result, <<>>)

\* ---------------------------------------------------------------- promises
Pending == [state |-> "pending", value |-> UNDEF]

\* resolve(v) and reject(e) of a promise: only the first settlement takes effect
Resolve(p, v) == IF p.state = "pending" THEN [state |-> "resolved", value |-> v] ELSE p
Reject(p, e) == IF p.state = "pending" THEN [state |-> "rejected", value |-> e] ELSE p

\* the context a pipeline invocation starts with: that of a top-level call, or the
\* one built from the ctx.method and ctx.options that a continuation is called with
Context(parent) ==
  IF parent = 0 THEN CTX
  ELSE [t |-> "ctx", method |-> frames[parent].ctx.method,
        options |-> frames[parent].ctx.options, meta |-> {}]

\* Invoke with the attempt count starting again from 0 on every redirect hop
Invoke_AttemptResetOnHop(parent, via, redirectCount, attempt) ==
  LET fr == [parent |-> parent, via |-> via, redirectCount |-> redirectCount,
             attempt |-> IF via = "redirect" THEN 0 ELSE attempt,
             pc |-> "pre", promise |-> Pending, ctx |-> Context(parent), pre |-> UNDEF,
             before |-> <<>>]
      pre == RunMiddleware("before", Context(parent), NULL)
  IN [frame |->
        IF pre.threw
        THEN [fr EXCEPT !.pc = "done", !.promise = Reject(@, pre.err),
                        !.before = pre.trace]
        ELSE IF ~Truthy(pre.ctx)
        THEN [fr EXCEPT !.pc = "done", !.before = pre.trace,
                        !.promise = Reject(@, MiddlewareError("invalid ctx", "before", 0))]
        ELSE [fr EXCEPT !.ctx = pre.ctx, !.pre = pre.result, !.before = pre.trace],
      trace |-> pre.trace,
      reports |-> pre.reports]

\* Invoke with a failure of the before phase swallowed: the invocation goes on to
\* dispatch with the context it started from
Invoke_FailureIgnored(parent, via, redirectCount, attempt) ==
  LET fr == [parent |-> parent, via |-> via, redirectCount |-> redirectCount,
             attempt |-> attempt, pc |-> "pre", promise |-> Pending,
             ctx |-> Context(parent), pre |-> UNDEF, before |-> <<>>]
      pre == RunMiddleware("before", Context(parent), NULL)
  IN [frame |->
        IF pre.threw
        THEN [fr EXCEPT !.pre = NULL, !.before = pre.trace]
        ELSE IF ~Truthy(pre.ctx)
        THEN [fr EXCEPT !.pc = "done", !.before = pre.trace,
                        !.promise = Reject(@, MiddlewareError("invalid ctx", "before", 0))]
        ELSE [fr EXCEPT !.ctx = pre.ctx, !.pre = pre.result, !.before = pre.trace],
      trace |-> pre.trace,
      reports |-> pre.reports]

\* this._request(method, url, options, redirectCount, attempt) called by frame parent,
\* up to the end of the "before" phase: _buildURLWithParams, the context, the before
\* chain and the check of pre.ctx; `before` keeps the invocations of this before phase
Invoke(parent, via, redirectCount, attempt) ==
  LET fr == [parent |-> parent, via |-> via, redirectCount |-> redirectCount,
             attempt |-> attempt, pc |-> "pre", promise |-> Pending,
             ctx |-> Context(parent), pre |-> UNDEF, before |-> <<>>]
      pre == RunMiddleware("before", Context(parent), NULL)
  IN [frame |->
        IF pre.threw
        THEN [fr EXCEPT !.pc = "done", !.promise = Reject(@, pre.err),
                        !.before = pre.trace]
        ELSE IF ~Truthy(pre.ctx)
        THEN [fr EXCEPT !.pc = "done", !.before = pre.trace,
                        !.promise = Reject(@, MiddlewareError("invalid ctx", "before", 0))]
        ELSE [fr EXCEPT !.ctx = pre.ctx, !.pre = pre.result, !.before = pre.trace],
      trace |-> pre.trace,
      reports |-> pre.reports]

\* the invocation made last on the client, of whichever call
Child_Latest(f) == Len(frames)

\* the frame whose promise frame f awaits
Child(f) == CHOOSE c \in 1..Len(frames) : frames[c].parent = f

\* a promise reaction or the continuation of an async function is queued: the event
\* loop runs these to completion before it delivers a transport event or a timer
MicrotaskQueued ==
  \E f \in 1..Len(frames) :
    \/ frames[f].pc = "pre"
    \/ /\ frames[f].pc \in {"retried", "redirected"}
       /\ \E c \in 1..Len(frames) : frames[c].parent = f /\ frames[c].promise.state # "pending"

Init ==
  /\ middlewares \in {m \in [before : SeqsUpTo(HandlerKinds, MaxHandlers),
                            after : SeqsUpTo(HandlerKinds, MaxHandlers)] :
                         Len(m.before) + Len(m.after) <= MaxHandlers}
  /\ middlewareErrorHandler \in {"null", "fn"}
  /\ method = "GET"
  /\ body = NULL
  /\ retries \in 0..MaxRetries
  /\ redirects \in 0..MaxRedirects
  /\ frames = <<>>
  /\ dispatched = 0
  /\ delays = 0
  /\ history = <<>>
  /\ log = <<>>
  /\ observed = <<>>
  /\ backoff = NoBackoff
  /\ built = NoURL
  /\ registration = NoRegistration

\* get / post / put / ...: the top-level call
Request ==
  /\ frames = <<>>
  /\ LET call == Invoke(0, "top", 0, 0)
     IN /\ frames' = <<call.frame>>
        /\ log' = log \o call.trace
        /\ observed' = observed \o call.reports
  /\ UNCHANGED <<registration, built, backoff, middlewares, middlewareErrorHandler, method, body, retries, redirects,
                 dispatched, delays, history>>

\* body && ctx.method !== 'GET' && ctx.method !== 'HEAD' &&
\* typeof body === 'object' && typeof body.pipe === 'function'
StreamRejected(m, b) ==
  /\ Truthy(b)
  /\ m # "GET" /\ m # "HEAD"
  /\ TypeOf(b) = "object" /\ b.pipe

\* _request from the test of pre.result to req.end(): the after chain on pre.result,
\* the return of its result, or else transport.request(...) with its listeners, the
\* body handling and req.end(); a rejected stream body returns before req.end() and
\* leaves the request created and never ended ("unsent")
Dispatch(f) ==
  /\ frames[f].pc = "pre"
  /\ LET fr == frames[f]
         post == RunMiddleware("after", fr.ctx, fr.pre)
         defined == fr.pre # UNDEF
         sent == defined /\ ~post.threw /\ ~Truthy(post.result)
     IN /\ frames' = [frames EXCEPT ![f] =
             IF ~defined
             THEN [fr EXCEPT !.pc = "done",
                             !.promise = Reject(@, MiddlewareError("invalid output", "before", 0))]
             ELSE IF post.threw
             THEN [fr EXCEPT !.pc = "done", !.promise = Reject(@, post.err)]
             ELSE IF Truthy(post.result)
             THEN [fr EXCEPT !.pc = "done", !.promise = Resolve(@, post.result)]
             ELSE IF StreamRejected(method, body)
             THEN [fr EXCEPT !.pc = "unsent", !.promise = Reject(@, UnsupportedBodyError)]
             ELSE [fr EXCEPT !.pc = "inflight"]]
        /\ log' = IF defined THEN log \o post.trace ELSE log
        /\ observed' = IF defined THEN observed \o post.reports ELSE observed
        /\ dispatched' = IF sent THEN dispatched + 1 ELSE dispatched
  /\ UNCHANGED <<registration, built, backoff, middlewares, middlewareErrorHandler, method, body, retries, redirects, delays, history>>

\* Follows with the budget test off by one: redirectCount <= redirects
Follows_OneHopMore(statusCode, location, redirectCount) ==
  /\ statusCode >= 300 /\ statusCode < 400 /\ location
  /\ redirectCount <= redirects

\* Follows without the test of the Location header
Follows_AnyRedirection(statusCode, location, redirectCount) ==
  /\ statusCode >= 300 /\ statusCode < 400
  /\ redirectCount < redirects

\* isRedirect && redirectCount < redirects
Follows(statusCode, location, redirectCount) ==
  /\ statusCode >= 300 /\ statusCode < 400 /\ location
  /\ redirectCount < redirects

\* RetriesStatus without the test of the retry budget
RetriesStatus_AnyServerError(statusCode, attempt) == statusCode >= 500

\* isServerError && attempt < retries
RetriesStatus(statusCode, attempt) == statusCode >= 500 /\ attempt < retries

\* the 'error' handler retrying whatever the attempt count
RetriesError_Always(attempt) == TRUE

\* attempt < retries, in the 'error' handler
RetriesError(attempt) == attempt < retries

\* res.on('end') running the after phase on every response that is not followed
ResEnd_AfterOnAny(f, c) ==
  /\ ~MicrotaskQueued
  /\ frames[f].pc = "inflight"
  /\ LET fr == frames[f]
         result == Result(c.statusCode, fr.attempt, fr.redirectCount)
         post == RunMiddleware("after", fr.ctx, result)
         follows == Follows(c.statusCode, c.location, fr.redirectCount)
         hop == Invoke(f, "redirect", fr.redirectCount + 1, fr.attempt)
     IN /\ frames' =
             IF follows
             THEN Append([frames EXCEPT ![f] = [fr EXCEPT !.pc = "redirected"]], hop.frame)
             ELSE [frames EXCEPT ![f] =
                    IF result.ok
                    THEN IF post.threw
                         THEN [fr EXCEPT !.pc = "unhandled"]
                         ELSE [fr EXCEPT !.pc = "done", !.promise = Resolve(@, post.result)]
                    ELSE IF RetriesStatus(c.statusCode, fr.attempt)
                    THEN [fr EXCEPT !.pc = "delay"]
                    ELSE [fr EXCEPT !.pc = "done",
                                    !.promise = Reject(@, HTTPError(result, fr.attempt))]]
        /\ log' = IF follows THEN log \o hop.trace ELSE log \o post.trace
        /\ observed' = IF follows THEN observed \o hop.reports ELSE observed \o post.reports
  /\ history' = Append(history, [event |-> "end", statusCode |-> c.statusCode,
                                 location |-> c.location, frame |-> f])
  /\ UNCHANGED <<registration, built, backoff, middlewares, middlewareErrorHandler, method, body, retries, redirects, dispatched, delays>>

\* res.on('end'): the response of the attempt is complete
ResEnd(f, c) ==
  /\ ~MicrotaskQueued
  /\ frames[f].pc = "inflight"
  /\ LET fr == frames[f]
         result == Result(c.statusCode, fr.attempt, fr.redirectCount)
         post == RunMiddleware("after", fr.ctx, result)
         follows == Follows(c.statusCode, c.location, fr.redirectCount)
         hop == Invoke(f, "redirect", fr.redirectCount + 1, fr.attempt)
     IN /\ frames' =
             IF follows
             THEN Append([frames EXCEPT ![f] = [fr EXCEPT !.pc = "redirected"]], hop.frame)
             ELSE [frames EXCEPT ![f] =
                    IF result.ok
                    THEN IF post.threw
                         THEN [fr EXCEPT !.pc = "unhandled"]
                         ELSE [fr EXCEPT !.pc = "done", !.promise = Resolve(@, post.result)]
                    ELSE IF RetriesStatus(c.statusCode, fr.attempt)
                    THEN [fr EXCEPT !.pc = "delay"]
                    ELSE [fr EXCEPT !.pc = "done",
                                    !.promise = Reject(@, HTTPError(result, fr.attempt))]]
        /\ log' = IF follows THEN log \o hop.trace
                  ELSE IF result.ok THEN log \o post.trace ELSE log
        /\ observed' = IF follows THEN observed \o hop.reports
                       ELSE IF result.ok THEN observed \o post.reports ELSE observed
  /\ history' = Append(history, [event |-> "end", statusCode |-> c.statusCode,
                                 location |-> c.location, frame |-> f])
  /\ UNCHANGED <<registration, built, backoff, middlewares, middlewareErrorHandler, method, body, retries, redirects, dispatched, delays>>

\* req.on('error'): a connection-level failure (also of a request that was created
\* and never ended), or the 'socket hang up' that req.destroy() raises on a request
\* whose response has not arrived
ReqError(f) ==
  /\ ~MicrotaskQueued
  /\ frames[f].pc \in {"inflight", "unsent", "destroyed"}
  /\ LET fr == frames[f]
     IN frames' = [frames EXCEPT ![f] =
          IF RetriesError(fr.attempt)
          THEN [fr EXCEPT !.pc = "delay"]
          ELSE [fr EXCEPT !.pc = "done", !.promise = Reject(@, NetworkError(fr.attempt))]]
  /\ history' = Append(history, [event |-> "error", statusCode |-> 0,
                                 location |-> FALSE, frame |-> f])
  /\ UNCHANGED <<registration, built, backoff, middlewares, middlewareErrorHandler, method, body, retries, redirects,
                 dispatched, delays, log, observed>>

\* req.on('timeout'): req.destroy(), then reject with the timeout error
ReqTimeout(f) ==
  /\ ~MicrotaskQueued
  /\ frames[f].pc \in {"inflight", "unsent"}
  /\ frames' = [frames EXCEPT ![f] =
        [@ EXCEPT !.pc = "destroyed", !.promise = Reject(@, TimeoutError(frames[f].attempt))]]
  /\ history' = Append(history, [event |-> "timeout", statusCode |-> 0,
                                 location |-> FALSE, frame |-> f])
  /\ UNCHANGED <<registration, built, backoff, middlewares, middlewareErrorHandler, method, body, retries, redirects,
                 dispatched, delays, log, observed>>

\* a destroyed request whose response had begun closes without an 'error' event
ReqClose(f) ==
  /\ ~MicrotaskQueued
  /\ frames[f].pc = "destroyed"
  /\ frames' = [frames EXCEPT ![f] = [@ EXCEPT !.pc = "done"]]
  /\ UNCHANGED <<registration, built, backoff, middlewares, middlewareErrorHandler, method, body, retries, redirects,
                 dispatched, delays, history, log, observed>>

\* the backoff timer of _delay fires: the retry re-invokes _request with attempt + 1
DelayDone(f) ==
  /\ ~MicrotaskQueued
  /\ frames[f].pc = "delay"
  /\ LET again == Invoke(f, "retry", frames[f].redirectCount, frames[f].attempt + 1)
     IN /\ frames' = Append([frames EXCEPT ![f] = [@ EXCEPT !.pc = "retried"]], again.frame)
        /\ log' = log \o again.trace
        /\ observed' = observed \o again.reports
  /\ delays' = delays + 1
  /\ UNCHANGED <<registration, built, backoff, middlewares, middlewareErrorHandler, method, body, retries, redirects,
                 dispatched, history>>

\* resolve(await this._request(...)) of a retry, in the 'end' and 'error' handlers:
\* the awaited promise has settled
RetrySettled(f) ==
  /\ frames[f].pc = "retried"
  /\ frames[Child(f)].promise.state # "pending"
  /\ LET fr == frames[f]
         inner == frames[Child(f)].promise
     IN frames' = [frames EXCEPT ![f] =
          IF inner.state = "resolved"
          THEN [fr EXCEPT !.pc = "done", !.promise = Resolve(@, inner.value)]
          ELSE [fr EXCEPT !.pc = "unhandled"]]
  /\ UNCHANGED <<registration, built, backoff, middlewares, middlewareErrorHandler, method, body, retries, redirects,
                 dispatched, delays, history, log, observed>>

\* the redirect branch handing the result of the hop on without an after phase
RedirectSettled_NoAfter(f) ==
  /\ frames[f].pc = "redirected"
  /\ frames[Child(f)].promise.state # "pending"
  /\ LET fr == frames[f]
         inner == frames[Child(f)].promise
         assignable == inner.state = "resolved" /\ Truthy(inner.value)
         redirected == [inner.value EXCEPT !.redirects = fr.redirectCount + 1]
     IN frames' = [frames EXCEPT ![f] =
             IF inner.state = "rejected"
             THEN [fr EXCEPT !.pc = "done", !.promise = Reject(@, inner.value)]
             ELSE IF ~assignable
             THEN [fr EXCEPT !.pc = "done", !.promise = Reject(@, TypeError)]
             ELSE [fr EXCEPT !.pc = "done", !.promise = Resolve(@, redirected)]]
  /\ UNCHANGED <<registration, built, backoff, middlewares, middlewareErrorHandler, method, body, retries, redirects,
                 dispatched, delays, history, log, observed>>

\* the try block of the redirect branch once the awaited _request has settled:
\* overwrite redirects, run the after chain, resolve; reject on anything thrown
RedirectSettled(f) ==
  /\ frames[f].pc = "redirected"
  /\ frames[Child(f)].promise.state # "pending"
  /\ LET fr == frames[f]
         inner == frames[Child(f)].promise
         assignable == inner.state = "resolved" /\ Truthy(inner.value)
         redirected == [inner.value EXCEPT !.redirects = fr.redirectCount + 1]
         post == RunMiddleware("after", fr.ctx, redirected)
     IN /\ frames' = [frames EXCEPT ![f] =
             IF inner.state = "rejected"
             THEN [fr EXCEPT !.pc = "done", !.promise = Reject(@, inner.value)]
             ELSE IF ~assignable
             THEN [fr EXCEPT !.pc = "done",
                             !.promise = Reject(@, TypeError)]
             ELSE IF post.threw
             THEN [fr EXCEPT !.pc = "done", !.promise = Reject(@, post.err)]
             ELSE [fr EXCEPT !.pc = "done", !.promise = Resolve(@, post.result)]]
        /\ log' = IF assignable THEN log \o post.trace ELSE log
        /\ observed' = IF assignable THEN observed \o post.reports ELSE observed
  /\ UNCHANGED <<registration, built, backoff, middlewares, middlewareErrorHandler, method, body, retries, redirects,
                 dispatched, delays, history>>

Next ==
  \/ Request
  \/ \E f \in 1..Len(frames) : Dispatch(f)
  \/ \E f \in 1..Len(frames), c \in Completions : ResEnd(f, c)
  \/ \E f \in 1..Len(frames) : ReqError(f)
  \/ \E f \in 1..Len(frames) : ReqTimeout(f)
  \/ \E f \in 1..Len(frames) : ReqClose(f)
  \/ \E f \in 1..Len(frames) : DelayDone(f)
  \/ \E f \in 1..Len(frames) : RetrySettled(f)
  \/ \E f \in 1..Len(frames) : RedirectSettled(f)

Spec == Init /\ [][Next]_vars

\* a client whose middleware follows the documented patterns: before handlers return
\* { ctx }, after handlers return { ctx, result }
InitDocumented ==
  /\ middlewares \in {m \in [before : SeqsUpTo({"pass"}, MaxHandlers),
                            after : SeqsUpTo({"fwd"}, MaxHandlers)] :
                         Len(m.before) + Len(m.after) <= MaxHandlers}
  /\ middlewareErrorHandler \in {"null", "fn"}
  /\ method = "GET"
  /\ body = NULL
  /\ retries \in 0..MaxRetries
  /\ redirects \in 0..MaxRedirects
  /\ frames = <<>>
  /\ dispatched = 0
  /\ delays = 0
  /\ history = <<>>
  /\ log = <<>>
  /\ observed = <<>>
  /\ backoff = NoBackoff
  /\ built = NoURL
  /\ registration = NoRegistration

SpecDocumented == InitDocumented /\ [][Next]_vars

\* calls of get / head / post with each kind of body, on a client without middleware
\* or with one handler of a documented pattern
InitBody ==
  /\ middlewares \in {m \in [before : SeqsUpTo({"pass"}, 1), after : SeqsUpTo({"fwd"}, 1)] :
                         Len(m.before) + Len(m.after) <= 1}
  /\ middlewareErrorHandler = "null"
  /\ method \in Methods
  /\ body \in Bodies
  /\ retries \in 0..MaxRetries
  /\ redirects \in 0..MaxRedirects
  /\ frames = <<>>
  /\ dispatched = 0
  /\ delays = 0
  /\ history = <<>>
  /\ log = <<>>
  /\ observed = <<>>
  /\ backoff = NoBackoff
  /\ built = NoURL
  /\ registration = NoRegistration

SpecBody == InitBody /\ [][Next]_vars

\* a client whose handlers may fail (a before handler that throws, an after handler
\* that throws when it is given a response) and that has a middleware error handler,
\* one that returns or one that throws
InitObserved ==
  /\ middlewares \in {m \in [before : SeqsUpTo({"pass", "throw"}, MaxHandlers),
                            after : SeqsUpTo({"fwd", "throwOnResult"}, MaxHandlers)] :
                         Len(m.before) + Len(m.after) <= MaxHandlers}
  /\ middlewareErrorHandler \in {"fn", "throws"}
  /\ method = "GET"
  /\ body = NULL
  /\ retries \in 0..MaxRetries
  /\ redirects \in 0..MaxRedirects
  /\ frames = <<>>
  /\ dispatched = 0
  /\ delays = 0
  /\ history = <<>>
  /\ log = <<>>
  /\ observed = <<>>
  /\ backoff = NoBackoff
  /\ built = NoURL
  /\ registration = NoRegistration

SpecObserved == InitObserved /\ [][Next]_vars

\* calls on a client whose before handlers store keys in ctx.meta and ctx.options or
\* supply a response, with or without an after handler that hands the response on
InitContext ==
  /\ middlewares \in [before : SeqsUpTo({"setMeta", "setOption", "set"}, MaxHandlers),
                      after : SeqsUpTo({"fwd"}, 1)]
  /\ middlewareErrorHandler = "null"
  /\ method = "GET"
  /\ body = NULL
  /\ retries \in 0..MaxRetries
  /\ redirects \in 0..MaxRedirects
  /\ frames = <<>>
  /\ dispatched = 0
  /\ delays = 0
  /\ history = <<>>
  /\ log = <<>>
  /\ observed = <<>>
  /\ backoff = NoBackoff
  /\ built = NoURL
  /\ registration = NoRegistration

SpecContext == InitContext /\ [][Next]_vars

\* calls on a client with a middleware error handler and with handlers that break
\* the return contract: no object, a null ctx, a result that is a string
InitContract ==
  /\ middlewares \in {m \in [before : SeqsUpTo({"pass", "nullctx", "bad"}, MaxHandlers),
                            after : SeqsUpTo({"fwd", "nullctx", "strres"}, MaxHandlers)] :
                         Len(m.before) + Len(m.after) <= MaxHandlers}
  /\ middlewareErrorHandler = "fn"
  /\ method = "GET"
  /\ body = NULL
  /\ retries \in 0..MaxRetries
  /\ redirects \in 0..MaxRedirects
  /\ frames = <<>>
  /\ dispatched = 0
  /\ delays = 0
  /\ history = <<>>
  /\ log = <<>>
  /\ observed = <<>>
  /\ backoff = NoBackoff
  /\ built = NoURL
  /\ registration = NoRegistration

SpecContract == InitContract /\ [][Next]_vars

\* a call is running: one of its invocations has not come to its end
Running == \E f \in 1..Len(frames) : frames[f].pc \notin {"done", "unhandled"}

\* use(fn, phase), directly or from an integration given to useIntegration, while a
\* call is running: fn is pushed onto the array that _runMiddleware iterates
Use(phase) ==
  /\ Running
  /\ Len(middlewares[phase]) < MaxHandlers
  /\ middlewares' = [middlewares EXCEPT ![phase] = Append(@, "late")]
  /\ UNCHANGED <<registration, built, backoff, middlewareErrorHandler, method, body, retries, redirects, frames,
                 dispatched, delays, history, log, observed>>

\* onMiddlewareError(fn) while a call is running, on a client that had no handler
OnMiddlewareError ==
  /\ Running
  /\ middlewareErrorHandler = "null"
  /\ middlewareErrorHandler' = "late"
  /\ UNCHANGED <<registration, built, backoff, middlewares, method, body, retries, redirects, frames,
                 dispatched, delays, history, log, observed>>

\* calls on a client without a middleware error handler, with or without a before
\* handler and an after handler that throws when it is given a response
InitRegistering ==
  /\ middlewares \in [before : SeqsUpTo({"pass"}, 1), after : SeqsUpTo({"throwOnResult"}, 1)]
  /\ middlewareErrorHandler = "null"
  /\ method = "GET"
  /\ body = NULL
  /\ retries \in 0..MaxRetries
  /\ redirects \in 0..1
  /\ frames = <<>>
  /\ dispatched = 0
  /\ delays = 0
  /\ history = <<>>
  /\ log = <<>>
  /\ observed = <<>>
  /\ backoff = NoBackoff
  /\ built = NoURL
  /\ registration = NoRegistration

NextRegistering ==
  \/ Next
  \/ \E phase \in {"before", "after"} : Use(phase)
  \/ OnMiddlewareError

SpecRegistering == InitRegistering /\ [][NextRegistering]_vars

\* a second call of get / post / ... on the same client, made at any moment after the
\* first: it starts a pipeline invocation tree of its own
RequestAgain ==
  /\ Cardinality({f \in 1..Len(frames) : frames[f].parent = 0}) = 1
  /\ LET call == Invoke(0, "top", 0, 0)
     IN /\ frames' = Append(frames, call.frame)
        /\ log' = log \o call.trace
        /\ observed' = observed \o call.reports
  /\ UNCHANGED <<registration, built, backoff, middlewares, middlewareErrorHandler, method, body, retries, redirects,
                 dispatched, delays, history>>

\* two calls running concurrently on one client, without middleware or with a before
\* handler that stores an option and an after handler that hands the response on
InitConcurrent ==
  /\ middlewares \in {[before |-> <<>>, after |-> <<>>],
                      [before |-> <<"setOption">>, after |-> <<"fwd">>]}
  /\ middlewareErrorHandler = "null"
  /\ method = "GET"
  /\ body = NULL
  /\ redirects \in {0, 1}
  /\ retries = IF redirects = 0 THEN MaxRetries ELSE 0
  /\ frames = <<>>
  /\ dispatched = 0
  /\ delays = 0
  /\ history = <<>>
  /\ log = <<>>
  /\ observed = <<>>
  /\ backoff = NoBackoff
  /\ built = NoURL
  /\ registration = NoRegistration

\* the answers of the server to the two calls: a success, a redirection, a server error
Answers == {c \in Completions : c.statusCode \in {200, 503} \/ c.location}

NextConcurrent ==
  \/ Request
  \/ RequestAgain
  \/ \E f \in 1..Len(frames) : Dispatch(f)
  \/ \E f \in 1..Len(frames), c \in Answers : ResEnd(f, c)
  \/ \E f \in 1..Len(frames) : ReqError(f)
  \/ \E f \in 1..Len(frames) : ReqTimeout(f)
  \/ \E f \in 1..Len(frames) : ReqClose(f)
  \/ \E f \in 1..Len(frames) : DelayDone(f)
  \/ \E f \in 1..Len(frames) : RetrySettled(f)
  \/ \E f \in 1..Len(frames) : RedirectSettled(f)

SpecConcurrent == InitConcurrent /\ [][NextConcurrent]_vars

\* the computation of a backoff delay on its own: delayMs = this._jitteredBackoff(
\* baseRetryDelay, attempt, maxRetryDelay), for each choice of the arguments
InitBackoff ==
  /\ middlewares = [before |-> <<>>, after |-> <<>>]
  /\ middlewareErrorHandler = "null"
  /\ method = "GET"
  /\ body = NULL
  /\ retries = 0
  /\ redirects = 0
  /\ frames = <<>>
  /\ dispatched = 0
  /\ delays = 0
  /\ history = <<>>
  /\ log = <<>>
  /\ observed = <<>>
  /\ backoff \in [baseDelay : BaseDelays, attempt : 0..MaxAttempt, maxDelay : MaxDelays,
                   random : Randoms, computed : {FALSE}, delay : {0}]
  /\ built = NoURL
  /\ registration = NoRegistration

ComputeBackoff ==
  /\ ~backoff.computed
  /\ backoff' = [backoff EXCEPT
        !.computed = TRUE,
        !.delay = JitteredBackoff(backoff.baseDelay, backoff.attempt,
                                  backoff.maxDelay, backoff.random)]
  /\ UNCHANGED <<registration, built, middlewares, middlewareErrorHandler, method, body, retries, redirects,
                 frames, dispatched, delays, history, log, observed>>

NextBackoff == ComputeBackoff

SpecBackoff == InitBackoff /\ [][NextBackoff]_vars

\* the configuration of a client before any call is made
InitIntegration ==
  /\ middlewares = [before |-> <<>>, after |-> <<>>]
  /\ middlewareErrorHandler = "null"
  /\ method = "GET"
  /\ body = NULL
  /\ retries = 0
  /\ redirects = 0
  /\ frames = <<>>
  /\ dispatched = 0
  /\ delays = 0
  /\ history = <<>>
  /\ log = <<>>
  /\ observed = <<>>
  /\ backoff = NoBackoff
  /\ built = NoURL
  /\ registration = NoRegistration

\* the registries have room for one more handler each
Room == Len(middlewares.before) < MaxHandlers /\ Len(middlewares.after) < MaxHandlers

\* client.use(fn, phase)
CallUse(fn, phase) ==
  /\ Room
  /\ LET out == Registered(middlewares, fn, phase)
     IN /\ middlewares' = out.middlewares
        /\ registration' = [op |-> "use", threw |-> out.threw,
                            prior |-> [middlewares |-> middlewares,
                                       middlewareErrorHandler |-> middlewareErrorHandler]]
  /\ UNCHANGED <<built, backoff, middlewareErrorHandler, method, body, retries, redirects,
                 frames, dispatched, delays, history, log, observed>>

\* client.useIntegration({ before, after })
CallUseIntegration(integration) ==
  /\ Room
  /\ LET out == Integrated(middlewares, integration)
     IN /\ middlewares' = out.middlewares
        /\ registration' = [op |-> "useIntegration", threw |-> out.threw,
                            prior |-> [middlewares |-> middlewares,
                                       middlewareErrorHandler |-> middlewareErrorHandler]]
  /\ UNCHANGED <<built, backoff, middlewareErrorHandler, method, body, retries, redirects,
                 frames, dispatched, delays, history, log, observed>>

\* client.onMiddlewareError(fn): throws, or replaces the handler
CallOnMiddlewareError(fn) ==
  /\ middlewareErrorHandler' = IF TypeOf(fn) # "function" THEN middlewareErrorHandler ELSE "fn"
  /\ registration' = [op |-> "onMiddlewareError", threw |-> TypeOf(fn) # "function",
                      prior |-> [middlewares |-> middlewares,
                                 middlewareErrorHandler |-> middlewareErrorHandler]]
  /\ UNCHANGED <<built, backoff, middlewares, method, body, retries, redirects,
                 frames, dispatched, delays, history, log, observed>>

NextIntegration ==
  \/ \E fn \in Arguments, phase \in Phases : CallUse(fn, phase)
  \/ \E b \in Arguments, a \in Arguments : CallUseIntegration([before |-> b, after |-> a])
  \/ \E fn \in Arguments : CallOnMiddlewareError(fn)

SpecIntegration == InitIntegration /\ [][NextIntegration]_vars

\* the URL of a call on its own: fullURL = this._buildURLWithParams(url, options.params)
\* at the top-level invocation, and again at a redirect hop on the URL of the Location
InitURL ==
  /\ middlewares = [before |-> <<>>, after |-> <<>>]
  /\ middlewareErrorHandler = "null"
  /\ method = "GET"
  /\ body = NULL
  /\ retries = 0
  /\ redirects = 1
  /\ frames = <<>>
  /\ dispatched = 0
  /\ delays = 0
  /\ history = <<>>
  /\ log = <<>>
  /\ observed = <<>>
  /\ backoff = NoBackoff
  /\ built \in [url : URLs, params : Params, location : URLs, pc : {"call"},
                 fullURL : {NoURL.fullURL}]
  /\ registration = NoRegistration

\* the first statement of _request at the top-level invocation
BuildURL ==
  /\ built.pc = "call"
  /\ built' = [built EXCEPT !.pc = "built",
                            !.fullURL = BuildURLWithParams(built.url, built.params)]
  /\ UNCHANGED <<registration, backoff, middlewares, middlewareErrorHandler, method, body, retries,
                 redirects, frames, dispatched, delays, history, log, observed>>

\* the redirect branch: nextUrl is resolved against ctx.url, and _request builds the
\* URL of the hop from nextUrl and ctx.options.params
BuildHopURL ==
  /\ built.pc = "built"
  /\ built' = [built EXCEPT !.pc = "hop",
                            !.fullURL = BuildURLWithParams(NextUrl(built.location, built.fullURL),
                                                           built.params)]
  /\ UNCHANGED <<registration, backoff, middlewares, middlewareErrorHandler, method, body, retries,
                 redirects, frames, dispatched, delays, history, log, observed>>

NextURL == BuildURL \/ BuildHopURL

SpecURL == InitURL /\ [][NextURL]_vars

\* ---------------------------------------------------------------- vocabulary of the claims
\* the promise returned to the caller of get / post / ...
Called == frames # <<>>
Caller == frames[1].promise

\* frame f still has a step to take
Active(f) ==
  \/ frames[f].pc \in {"pre", "inflight", "unsent", "destroyed", "delay"}
  \/ /\ frames[f].pc \in {"retried", "redirected"}
     /\ \E c \in 1..Len(frames) : frames[c].parent = f /\ frames[c].promise.state # "pending"

\* the call has been made and nothing of it is left to run
Quiescent == Called /\ \A f \in 1..Len(frames) : ~Active(f)

\* every registered handler hands on the result it is given, unchanged
Untouched ==
  \A phase \in {"before", "after"} :
    \A i \in 1..Len(middlewares[phase]) : middlewares[phase][i] \in {"pass", "fwd"}

\* the i-th transport outcome is a completion with a status of the given class
Completed(i, lo, hi) ==
  /\ history[i].event = "end"
  /\ history[i].statusCode >= lo /\ history[i].statusCode < hi

ServerError(i) == Completed(i, 500, 600)
Redirection(i) == Completed(i, 300, 400) /\ history[i].location
Success(i) == Completed(i, 200, 300)

\* ---------------------------------------------------------------- C1
\* C1: every top-level call eventually settles: once nothing of the call is left to
\* run, the promise returned to the caller is resolved or rejected, never pending.
C1_EveryCallSettles == Quiescent => Caller.state # "pending"

\* ---------------------------------------------------------------- C2
\* C2: retry exhaustion: with retries = n >= 1, when each of the n + 1 attempts
\* completes with a status >= 500, the caller's promise rejects with an error whose
\* response.statusCode is that status and whose request.attempt is n.
C2_RetryExhaustion ==
  ( /\ Quiescent
    /\ retries >= 1
    /\ Len(history) = retries + 1
    /\ \A i \in 1..Len(history) : ServerError(i) )
  => /\ Caller.state = "rejected"
     /\ Caller.value.kind = "http"
     /\ Caller.value.response.statusCode = history[Len(history)].statusCode
     /\ Caller.value.request /\ Caller.value.attempt = retries

\* ---------------------------------------------------------------- C3
\* C3: redirect accounting: for 1 <= k <= redirects, a call whose first k attempts
\* complete as 3xx with Location and whose (k+1)-th completes with 2xx resolves with
\* the terminal 2xx response and redirects = k (handlers, if any, hand the result on).
C3_RedirectAccounting ==
  \A k \in 1..redirects :
    ( /\ Quiescent
      /\ Untouched
      /\ Len(history) = k + 1
      /\ \A i \in 1..k : Redirection(i)
      /\ Success(k + 1) )
    => /\ Caller.state = "resolved"
       /\ Caller.value.src = "transport"
       /\ Caller.value.statusCode = history[k + 1].statusCode
       /\ Caller.value.redirects = k

\* ---------------------------------------------------------------- C4
\* frame f completed as a 3xx with Location after the call had followed `redirects` hops
Unfollowed(f) ==
  /\ frames[f].redirectCount >= redirects
  /\ \E i \in 1..Len(history) : history[i].frame = f /\ Redirection(i)

\* every invocation from the top-level call down to f is a redirect hop
RECURSIVE HopsOnly(_)
HopsOnly(f) == f = 1 \/ (frames[f].via = "redirect" /\ HopsOnly(frames[f].parent))

\* C4 as stated: redirect budget exceeded: the call resolves with the unfollowed 3xx
\* response, with redirects equal to the configured maximum; it does not reject.
C4_BudgetExceededResolves ==
  \A f \in 1..Len(frames) :
    (Quiescent /\ Unfollowed(f) /\ HopsOnly(f))
    => /\ Caller.state = "resolved"
       /\ Caller.value.statusCode \in 300..399
       /\ Caller.value.redirects = redirects

\* C4 amended: redirect budget exceeded: the attempt is not followed and its invocation
\* rejects with an HTTP-status error whose response is that 3xx response with redirects
\* equal to the configured maximum; every enclosing redirect layer rejects with the
\* same error, so a call that reached the attempt by redirects alone rejects with it.
C4_BudgetExceededRejects ==
  \A f \in 1..Len(frames) :
    Unfollowed(f)
    => /\ ~\E c \in 1..Len(frames) : frames[c].parent = f
       /\ frames[f].promise.state = "rejected"
       /\ frames[f].promise.value.kind = "http"
       /\ frames[f].promise.value.response.statusCode \in 300..399
       /\ ~frames[f].promise.value.response.ok
       /\ frames[f].promise.value.response.redirects = redirects
       /\ (Quiescent /\ HopsOnly(f)) => Caller = frames[f].promise

\* the 301, 301 scenario with redirects = 1, run to its end
C4_Witness ==
  /\ Quiescent
  /\ redirects >= 1
  /\ Len(frames) = redirects + 1
  /\ Unfollowed(Len(frames)) /\ HopsOnly(Len(frames))
  /\ Caller.state = "rejected"

\* ---------------------------------------------------------------- C5
\* C5: retry accounting: for 0 <= k <= retries, a call whose first k attempts complete
\* with a status >= 500 and whose (k+1)-th completes with 2xx resolves with ok = true
\* and retries = k, after one backoff delay per retry (handlers, if any, hand the
\* result on).
C5_RetryAccounting ==
  \A k \in 0..retries :
    ( /\ Quiescent
      /\ Untouched
      /\ Len(history) = k + 1
      /\ \A i \in 1..k : ServerError(i)
      /\ Success(k + 1) )
    => /\ Caller.state = "resolved"
       /\ Caller.value.src = "transport"
       /\ Caller.value.ok
       /\ Caller.value.retries = k
       /\ delays = k

\* a 5xx, a backoff, then a 2xx, with a handler registered
C5_Witness ==
  /\ Quiescent
  /\ Untouched
  /\ Len(middlewares.after) >= 1
  /\ Len(history) = 2 /\ ServerError(1) /\ Success(2)
  /\ Caller.state = "resolved" /\ Caller.value.retries = 1
  /\ delays = 1

\* ---------------------------------------------------------------- C6
TimedOut == \E i \in 1..Len(history) : history[i].event = "timeout"

\* C6: timeout is terminal: once an attempt of the call has timed out, no further
\* transport attempt is dispatched for the call, whatever the retries budget.
C6_TimeoutTerminal == [][TimedOut => dispatched' = dispatched]_vars

\* ---------------------------------------------------------------- C7
\* the before chain of the top-level call returned { ctx, result: R } with R an object
ShortCircuited == Called /\ Truthy(frames[1].pre)

\* C7: before short-circuit: when a before handler returns { ctx, result: R } with R an
\* object, the call makes no transport attempt, the after phase runs on R, and the
\* call resolves with the after phase's result for R.
C7_ShortCircuit ==
  (ShortCircuited /\ frames[1].pc # "pre")
  => LET post == RunMiddleware("after", frames[1].ctx, frames[1].pre)
     IN /\ dispatched = 0
        /\ \A i \in 1..Len(post.trace) : \E j \in 1..Len(log) : log[j] = post.trace[i]
        /\ ~post.threw => Caller = [state |-> "resolved", value |-> post.result]

\* ---------------------------------------------------------------- C8
\* C8: a middleware failure aborts the call with the original error: whenever a handler
\* throws or violates the return contract, in any layer, the caller's promise rejects
\* with that handler's error.
C8_MiddlewareFailureRejects ==
  \A j \in 1..Len(log) :
    (Quiescent /\ log[j].error # UNDEF)
    => Caller = [state |-> "rejected", value |-> log[j].error]

\* ---------------------------------------------------------------- C9
\* C9: after-phase ordering: with n >= 2 after handlers that each return
\* { ctx, result }, every run of the after phase invokes all n, and the value returned
\* to the caller is the result returned by the last registered handler.
C9_AfterOrdering ==
  LET n == Len(middlewares.after)
  IN ( /\ n >= 2
       /\ \A i \in 1..n : middlewares.after[i] \in {"fwd", "set"}
       /\ Called /\ Caller.state = "resolved" )
     => /\ \E j \in 1..Len(log) : log[j].phase = "after" /\ log[j].idx = n
        /\ middlewares.after[n] = "set" => Caller.value = Supplied("after", n)

\* ---------------------------------------------------------------- C10
\* C10: after handlers run only once a result exists: no after handler is invoked
\* with a null or absent result.
C10_AfterNeedsResult ==
  \A j \in 1..Len(log) : log[j].phase = "after" => Truthy(log[j].result)

\* ---------------------------------------------------------------- C11
\* C11: error snapshots: every rejection of a call carries a request snapshot, and a
\* response snapshot is present exactly when the rejection is an HTTP-status failure.
C11_ErrorSnapshots ==
  (Called /\ Caller.state = "rejected")
  => /\ Caller.value.request
     /\ Caller.value.response # UNDEF <=> Caller.value.kind = "http"

\* ---------------------------------------------------------------- C12
\* C12: streaming body rejection: for every HTTP method, GET and HEAD included, a call
\* whose body is an object with a pipe function rejects with the unsupported-body
\* error and no request is sent for it.
C12_StreamingBodyRejected ==
  (Called /\ body = StreamBody /\ frames[1].pc # "pre")
  => /\ Caller = [state |-> "rejected", value |-> UnsupportedBodyError]
     /\ \A f \in 1..Len(frames) : frames[f].pc # "inflight"

\* ---------------------------------------------------------------- C13
\* C13: no I/O before body rejection: when a call is rejected because of a streaming
\* body, no transport request has been created for the call at that moment, and none
\* is created afterwards.
C13_NoIOBeforeBodyRejection ==
  (Called /\ Caller.state = "rejected" /\ Caller.value.kind = "body") => dispatched = 0

\* ---------------------------------------------------------------- C14
\* the invocation that made the attempt of the i-th transport outcome spawned no
\* continuation: the attempt was neither followed as a redirect nor retried
Final(i) == \A c \in 1..Len(frames) : frames[c].parent # history[i].frame

\* C14: a call resolves with a transport-produced response only if that response is
\* 2xx: every completed attempt whose status is not 2xx and that is neither followed
\* nor retried makes the call reject with an error carrying that response (handlers,
\* if any, hand the result on).
C14_OnlySuccessResolves ==
  /\ (Called /\ Caller.state = "resolved" /\ Truthy(Caller.value)
        /\ Caller.value.src = "transport") => Caller.value.ok
  /\ \A i \in 1..Len(history) :
       (Quiescent /\ Untouched /\ history[i].event = "end" /\ ~Success(i) /\ Final(i))
       => /\ Caller.state = "rejected"
          /\ Caller.value.kind = "http"
          /\ Caller.value.response =
               Result(history[i].statusCode, frames[history[i].frame].attempt,
                      frames[history[i].frame].redirectCount)

\* ---------------------------------------------------------------- C15
\* the transport attempts of the call that have been sent and have not finished
InFlight == {f \in 1..Len(frames) : frames[f].pc = "inflight"}

\* C15: at most one transport attempt of a call is in flight at any time, and no
\* transport attempt is dispatched after the call's promise has settled.
C15_OneAttemptInFlight ==
  [][ /\ Cardinality(InFlight') <= 1
      /\ (Called /\ Caller.state # "pending") => dispatched' = dispatched ]_vars

\* ---------------------------------------------------------------- C16
\* the attempt of invocation f has ended, and how: its first transport outcome
Ended(f) == \E i \in 1..Len(history) : history[i].frame = f
Outcome(f) ==
  CHOOSE i \in 1..Len(history) :
    history[i].frame = f /\ \A j \in 1..(i - 1) : history[j].frame # f

\* the attempt of invocation f is retried: the backoff is running or the retry is made
Retried(f) ==
  \/ frames[f].pc = "delay"
  \/ \E c \in 1..Len(frames) : frames[c].parent = f /\ frames[c].via = "retry"

\* C16: retry trigger: an attempt is retried if and only if it ended in a transport
\* error or completed with a status >= 500, and its attempt count is below retries;
\* 4xx completions and timeouts are never retried; each retry re-invokes the pipeline
\* with attempt + 1 and the same redirect count.
C16_RetryTrigger ==
  \A f \in 1..Len(frames) :
    /\ Retried(f) <=>
         /\ Ended(f)
         /\ history[Outcome(f)].event = "error" \/ ServerError(Outcome(f))
         /\ frames[f].attempt < retries
    /\ (Ended(f) /\ history[Outcome(f)].event = "timeout") => ~Retried(f)
    /\ (Ended(f) /\ Completed(Outcome(f), 400, 500)) => ~Retried(f)
    /\ \A c \in 1..Len(frames) :
         (frames[c].parent = f /\ frames[c].via = "retry")
         => /\ frames[c].attempt = frames[f].attempt + 1
            /\ frames[c].redirectCount = frames[f].redirectCount

\* ---------------------------------------------------------------- C17
\* the attempt of invocation f is followed as a redirect
Followed(f) == \E c \in 1..Len(frames) : frames[c].parent = f /\ frames[c].via = "redirect"

Retries == {c \in 1..Len(frames) : frames[c].via = "retry"}

\* C18: shared retry budget: a redirect hop starts with the attempt count of the
\* attempt it follows, a retry keeps the redirect count, and over the whole call,
\* across all hops, at most `retries` retry re-invocations occur.
C18_SharedRetryBudget ==
  /\ \A c \in 1..Len(frames) :
       /\ frames[c].via = "redirect" => frames[c].attempt = frames[frames[c].parent].attempt
       /\ frames[c].via = "retry"
          => frames[c].redirectCount = frames[frames[c].parent].redirectCount
  /\ Cardinality(Retries) <= retries

\* a retry, then a redirect, then a 5xx on the new hop that is not retried: the budget
\* was used up before the hop
C18_Witness ==
  \E c \in 1..Len(frames) :
    /\ frames[c].via = "redirect"
    /\ retries >= 1 /\ Cardinality(Retries) = retries
    /\ Ended(c) /\ ServerError(Outcome(c)) /\ ~Retried(c)
    /\ frames[c].pc = "done"

\* ---------------------------------------------------------------- C19
\* C19: counter invariant: at every pipeline invocation of a call,
\* 0 <= redirectCount <= redirects and 0 <= attempt <= retries, and the redirectCount
\* and attempt of a continuation are greater than or equal to those of the invocation
\* that spawned it.
C19_CounterInvariant ==
  \A f \in 1..Len(frames) :
    /\ 0 <= frames[f].redirectCount /\ frames[f].redirectCount <= redirects
    /\ 0 <= frames[f].attempt /\ frames[f].attempt <= retries
    /\ frames[f].parent # 0
       => /\ frames[f].redirectCount >= frames[frames[f].parent].redirectCount
          /\ frames[f].attempt >= frames[frames[f].parent].attempt

\* an invocation that is at both maxima, reached by a retry and by redirects
C19_Witness ==
  \E f \in 1..Len(frames) :
    /\ redirects >= 1 /\ frames[f].redirectCount = redirects
    /\ retries >= 1 /\ frames[f].attempt = retries
    /\ Ended(f)

\* ---------------------------------------------------------------- C20
\* the handler invocations that ended with a throw or a contract violation, in order
Failed(e) == e.error # UNDEF
Failures == SelectSeq(log, Failed)

Backoffs == {f \in 1..Len(frames) : frames[f].pc = "delay"}

\* C21: a middleware failure is never retried: once a before or after handler has
\* failed during a call, no further transport attempt is dispatched for the call and
\* no backoff delay is scheduled, whatever the retries budget.
C21_FailureNeverRetried ==
  [][Failures # <<>> => /\ dispatched' = dispatched
                        /\ delays' = delays
                        /\ Backoffs' \subseteq Backoffs]_vars

\* an after handler throws on the response of the first attempt of a call that has a
\* retry left, and the call has come to rest with that one attempt
C21_Witness ==
  /\ Quiescent
  /\ retries >= 1
  /\ Len(Failures) = 1 /\ Failures[1].phase = "after" /\ Truthy(Failures[1].result)
  /\ dispatched = 1 /\ delays = 0

\* ---------------------------------------------------------------- C22
\* C22: maxRetryDelay is the maximum delay between retries: for every attempt number,
\* baseRetryDelay and maxRetryDelay, the delay waited before a retry never exceeds
\* maxRetryDelay.
C22_MaxRetryDelayCap == backoff.computed => backoff.delay <= Ticks(backoff.maxDelay)

\* ---------------------------------------------------------------- C28
\* d = min(baseRetryDelay * 2^a, maxRetryDelay), written out
Nominal(baseDelay, a, maxDelay) ==
  IF baseDelay * Pow2(a) < maxDelay THEN baseDelay * Pow2(a) ELSE maxDelay

\* C28: backoff formula: before the retry that follows attempt a, the delay waited
\* lies in [0.8 * d, 1.2 * d] where d = min(baseRetryDelay * 2^a, maxRetryDelay); d is
\* non-decreasing in a and equals maxRetryDelay once baseRetryDelay * 2^a >= maxRetryDelay.
C28_BackoffFormula ==
  LET b == backoff.baseDelay
      a == backoff.attempt
      m == backoff.maxDelay
      d == Nominal(b, a, m)
  IN backoff.computed
     => /\ 4 * Ticks(d) <= 5 * backoff.delay
        /\ 5 * backoff.delay <= 6 * Ticks(d)
        /\ d <= Nominal(b, a + 1, m)
        /\ b * Pow2(a) >= m => d = m

\* a delay computed at the cap with the largest random value: above maxRetryDelay
C28_Witness ==
  /\ backoff.computed
  /\ backoff.attempt >= 1
  /\ backoff.baseDelay * Pow2(backoff.attempt) > backoff.maxDelay
  /\ backoff.baseDelay * Pow2(backoff.attempt - 1) < backoff.maxDelay
  /\ backoff.delay > Ticks(backoff.maxDelay)

\* ---------------------------------------------------------------- C23
\* the top-level calls made on the client, and the call an invocation belongs to
Calls(fs) == {f \in 1..Len(fs) : fs[f].parent = 0}

RECURSIVE CallOf(_, _)
CallOf(fs, f) == IF fs[f].parent = 0 THEN f ELSE CallOf(fs, fs[f].parent)

Continued(f) == \E c \in 1..Len(frames) : frames[c].parent = f
Continuation(f) == CHOOSE c \in 1..Len(frames) : frames[c].parent = f

\* nothing of call r is left to run
AtRest(r) == \A f \in 1..Len(frames) : CallOf(frames, f) = r => ~Active(f)

\* the promise of invocation f as its own transport outcomes and those of its own
\* continuations determine it: what the call produces when it runs alone
RECURSIVE Alone(_)
Alone(f) ==
  LET fr == frames[f]
      o == history[Outcome(f)]
      result == Result(o.statusCode, fr.attempt, fr.redirectCount)
  IN IF o.event = "timeout" THEN Reject(Pending, TimeoutError(fr.attempt))
     ELSE IF ~Continued(f)
     THEN IF o.event = "error" THEN Reject(Pending, NetworkError(fr.attempt))
          ELSE IF result.ok THEN Resolve(Pending, result)
          ELSE Reject(Pending, HTTPError(result, fr.attempt))
     ELSE LET inner == Alone(Continuation(f))
          IN IF inner.state # "resolved"
             THEN IF frames[Continuation(f)].via = "redirect" THEN inner ELSE Pending
             ELSE IF frames[Continuation(f)].via = "redirect"
             THEN Resolve(Pending, [inner.value EXCEPT !.redirects = fr.redirectCount + 1])
             ELSE inner

\* the continuation that the transport outcomes of invocation f call for
Continues(f) ==
  LET fr == frames[f]
      o == history[Outcome(f)]
  IN IF o.event = "end" /\ Follows(o.statusCode, o.location, fr.redirectCount)
     THEN "redirect"
     ELSE IF o.event = "end"
     THEN IF RetriesStatus(o.statusCode, fr.attempt) THEN "retry" ELSE "none"
     ELSE IF /\ RetriesError(fr.attempt)
             /\ \E i \in 1..Len(history) : history[i].frame = f /\ history[i].event = "error"
     THEN "retry"
     ELSE "none"

\* call r is what it is when run alone: the continuations, counters, context and
\* promise of each of its invocations follow from its own transport outcomes
Isolated(r) ==
  \A f \in 1..Len(frames) :
    CallOf(frames, f) = r =>
      /\ Ended(f)
      /\ frames[f].promise = Alone(f)
      /\ frames[f].ctx =
           [CTX EXCEPT !.options = {<<"before", i>> : i \in 1..Len(middlewares.before)}]
      /\ Cardinality({c \in 1..Len(frames) : frames[c].parent = f}) <= 1
      /\ Continued(f) <=> Continues(f) # "none"
      /\ Continued(f) => frames[Continuation(f)].via = Continues(f)
      /\ IF f = r
         THEN frames[f].redirectCount = 0 /\ frames[f].attempt = 0
         ELSE LET p == frames[frames[f].parent]
              IN IF frames[f].via = "redirect"
                 THEN /\ frames[f].redirectCount = p.redirectCount + 1
                      /\ frames[f].attempt = p.attempt
                 ELSE /\ frames[f].redirectCount = p.redirectCount
                      /\ frames[f].attempt = p.attempt + 1

\* each call at rest is what it is when run alone
Isolation == \A r \in Calls(frames) : AtRest(r) => Isolated(r)

\* the calls whose invocations a step creates or changes
Stepped ==
  {CallOf(frames', f) : f \in {g \in 1..Len(frames') : g > Len(frames) \/ frames'[g] # frames[g]}}

Before(f) == frames[f].before

\* C24: before-phase discipline: the before handlers are invoked in registration
\* order, the first with the context the invocation starts with and each later one
\* with the ctx the previous handler returned; a handler whose return carries a
\* defined result is the last one invoked; the ctx the invocation goes on with is the
\* one returned by the last handler that ran.
C24_BeforeDiscipline ==
  \A f \in 1..Len(frames) :
    LET tr == Before(f)
        n == Len(tr)
    IN /\ n <= Len(middlewares.before)
       /\ \A i \in 1..n : tr[i].phase = "before" /\ tr[i].idx = i
       /\ n >= 1 => tr[1].ctx = Context(frames[f].parent)
       /\ \A i \in 1..(n - 1) : tr[i].out.result = UNDEF /\ tr[i + 1].ctx = tr[i].out.ctx
       /\ (n < Len(middlewares.before)) => (n >= 1 /\ tr[n].out.result # UNDEF)
       /\ frames[f].ctx = IF n = 0 THEN Context(frames[f].parent) ELSE tr[n].out.ctx

\* a continuation whose two before handlers both ran, the second on a ctx that the
\* first had changed, and whose attempt was dispatched
C24_Witness ==
  \E f \in 1..Len(frames) :
    /\ frames[f].parent # 0
    /\ Len(Before(f)) = 2
    /\ Before(f)[1].out.ctx # Before(f)[1].ctx
    /\ Before(f)[2].out.ctx # Before(f)[2].ctx
    /\ Ended(f)

\* ---------------------------------------------------------------- C25
\* the executions of the after phase on a response, in order: the calls of the first
\* after handler with a result that is not null
OnResponse(e) == e.phase = "after" /\ e.idx = 1 /\ Truthy(e.result)
AfterRuns == SelectSeq(log, OnResponse)

\* the redirect hops and the retries of the call
Hops == {f \in 1..Len(frames) : frames[f].via = "redirect"}
Retrials == {f \in 1..Len(frames) : frames[f].via = "retry"}

\* C25: after phase per redirect layer: a call that follows k redirects and resolves
\* with a 2xx response of the transport runs the after phase on a response k + 1
\* times: first at the terminal layer, on the response with redirects = k, then at
\* each outer layer from the innermost out, on the inner result with redirects
\* overwritten to that layer's redirectCount + 1; retries add no execution.
C25_AfterPerRedirectLayer ==
  (/\ Quiescent
   /\ Caller.state = "resolved"
   /\ Len(middlewares.after) >= 1)
  => LET k == Cardinality(Hops)
     IN /\ Len(AfterRuns) = k + 1
        /\ AfterRuns[1].result.redirects = k
        /\ \A i \in 2..(k + 1) : AfterRuns[i].result.redirects = k - i + 2
        /\ \A i \in 1..(k + 1) :
             /\ AfterRuns[i].result.ok
             /\ AfterRuns[i].result.retries = Cardinality(Retrials)

\* a call resolved after two redirects and a successful retry
C25_Witness ==
  /\ Quiescent
  /\ Caller.state = "resolved"
  /\ Len(middlewares.after) >= 1
  /\ Cardinality(Hops) = 2
  /\ Cardinality(Retrials) = 1
  /\ Len(AfterRuns) = 3

\* ---------------------------------------------------------------- C26
\* the handler of the i-th transport event takes effect: it settles the promise of
\* its invocation or schedules a continuation. The handler of an 'error' that comes
\* after another event of the same attempt finds the promise settled, and takes
\* effect only by scheduling a retry.
TakesEffect(i) ==
  \/ Outcome(history[i].frame) = i
  \/ history[i].event = "error" /\ RetriesError(frames[history[i].frame].attempt)

\* C26: each transport attempt yields exactly one outcome: for one attempt at most
\* one of the 'end', 'error' and 'timeout' handlers takes effect.
C26_OneOutcomePerAttempt ==
  \A f \in 1..Len(frames) :
    Cardinality({i \in 1..Len(history) : history[i].frame = f /\ TakesEffect(i)}) <= 1

\* ---------------------------------------------------------------- C27
\* C27: context threading: what the before handlers of one attempt left in the
\* context (the method, the keys stored in ctx.options and in ctx.meta) is present in
\* the context given to the handlers of the next retry or redirect continuation.
C27_ContextThreading ==
  \A c \in 1..Len(frames) :
    (frames[c].parent # 0 /\ Len(Before(c)) >= 1)
    => LET given == Before(c)[1].ctx
           kept == frames[frames[c].parent].ctx
       IN /\ given.method = kept.method
          /\ kept.options \subseteq given.options
          /\ kept.meta \subseteq given.meta

\* ---------------------------------------------------------------- C29
\* the return of the handler invocation e breaks the contract: it is no object or has
\* no object ctx (ctx missing or null), or it carries a result that is not an object
Violates(e) ==
  \/ ~Truthy(e.out.ctx)
  \/ e.out.result # UNDEF /\ e.out.result.t = "string"

\* C29: contract violations: every handler return that breaks the contract raises a
\* middleware error that is reported to the observer with the handler's phase, and
\* the call rejects; no such return is silently accepted.
C29_ContractViolations ==
  \A j \in 1..Len(log) :
    Violates(log[j])
    => /\ log[j].error # UNDEF
       /\ \E k \in 1..Len(observed) :
            observed[k].err = log[j].error /\ observed[k].phase = log[j].phase
       /\ Quiescent => Caller.state = "rejected"

\* ---------------------------------------------------------------- C30
\* C30: registries are read-only during dispatch: a handler registered while the call
\* is running is not executed by the call, and an error handler registered while the
\* call is running is not called by it.
C30_RegistriesReadOnly ==
  /\ \A j \in 1..Len(log) : middlewares[log[j].phase][log[j].idx] # "late"
  /\ middlewareErrorHandler = "late" => observed = <<>>

\* ---------------------------------------------------------------- C31
\* C31: query parameters are appended: without params the URL is unchanged; with
\* params the query of the built URL contains every parameter of the URL and every
\* entry of params; at a redirect hop it contains every parameter of the Location
\* and every entry of params.
C31_ParamsAppended ==
  /\ (built.pc = "built" /\ built.params = UNDEF) => built.fullURL = built.url
  /\ (built.pc = "built" /\ built.params # UNDEF)
       => /\ built.url.query \subseteq built.fullURL.query
          /\ built.params.entries \subseteq built.fullURL.query
  /\ (built.pc = "hop" /\ built.params # UNDEF)
       => /\ built.location.query \subseteq built.fullURL.query
          /\ built.params.entries \subseteq built.fullURL.query

\* ---------------------------------------------------------------- C32
\* C32: bounded work: every continuation is one step further in attempt or in
\* redirectCount than the invocation that spawned it, an invocation spawns at most
\* one continuation and makes at most one transport attempt, and the call makes at
\* most 1 + retries + redirects transport attempts.
C32_BoundedWork ==
  /\ \A c \in 1..Len(frames) :
       /\ frames[c].parent # 0
          => frames[c].attempt + frames[c].redirectCount
               = frames[frames[c].parent].attempt + frames[frames[c].parent].redirectCount + 1
       /\ Cardinality({d \in 1..Len(frames) : frames[d].parent = c}) <= 1
  /\ dispatched <= Len(frames)
  /\ dispatched <= 1 + retries + redirects

\* a call that used its whole budget: 1 + retries + redirects transport attempts
C32_Witness ==
  /\ retries >= 1
  /\ redirects >= 2
  /\ dispatched = 1 + retries + redirects
  /\ Quiescent

\* ---------------------------------------------------------------- C33
\* the invocations of after handlers, in order
IsAfter(e) == e.phase = "after"
AfterLog == SelectSeq(log, IsAfter)

\* the transport outcome recorded last is a failure: an error, a timeout, or a
\* completion with a status that is not 2xx
FailedLast ==
  /\ history # <<>>
  /\ ~Success(Len(history))

\* no after handler has been given a response of the transport that is not 2xx
OnlySuccessAfter ==
  \A j \in 1..Len(log) :
    (IsAfter(log[j]) /\ Truthy(log[j].result) /\ log[j].result.src = "transport")
    => log[j].result.ok

C34_RegistrationAtomic ==
  registration.threw
  => /\ middlewares = registration.prior.middlewares
     /\ middlewareErrorHandler = registration.prior.middlewareErrorHandler
====
